---- MODULE Spec2Model ----
(***************************************************************************)
(* Model of ai_edge_torch/generative/examples/qwen/qwen.py.                *)
(*                                                                         *)
(* Python objects live on a heap: every AttentionConfig, FeedForwardConfig,*)
(* NormalizationConfig, TransformerBlockConfig and ModelConfig is a cell   *)
(* of heap, and a field that holds an object holds the index of its cell.  *)
(* An assignment to a field of an object updates the cell, so every        *)
(* reference to that object sees it.  Tensors are cells of storage; a      *)
(* weight names the storage it reads and writes.                           *)
(***************************************************************************)
EXTENDS Integers, Sequences, FiniteSets, TLC

VARIABLES heap, models, storage, pc, frame, calls

vars == <<heap, models, storage, pc, frame, calls>>

(***************************************************************************)
(* Bounds of the model.                                                    *)
(***************************************************************************)
\* number of ModelConfig objects the explored runs allocate
MaxConfigs == 2
\* number of Qwen modules the explored runs allocate
MaxModels == 1

\* values of kv_cache_max_len the callers pass
KvLens == {512, 2048}
\* contents of the embedding tensor a checkpoint holds
Values == {"w1", "w2"}
\* contents of the lm_head tensor of a checkpoint that holds one of its own
CheckpointHead == "head"
\* contents of a freshly initialised embedding and head weight
InitEmbedding == "init_embedding"
InitHead == "init_head"
\* the tensors a checkpoint holds under a name: none or one
NoTensor == {}

\* the keyword arguments of a call: none, or kv_cache_max_len = k
Kwargs == {{}} \cup {{<<"kv_cache_max_len", k>>} : k \in KvLens}

\* a checkpoint file: the embedding tensor and, possibly, an lm_head tensor
Checkpoints ==
  [embedding : Values, lm_head : {NoTensor, {CheckpointHead}}]

(***************************************************************************)
(* Literals of the source that are not integers.                           *)
(***************************************************************************)
\* 1.0
Float_1_0 == [num |-> 1, den |-> 1]
\* 1e-06
Float_1e_06 == [num |-> 1, den |-> 1000000]

(***************************************************************************)
(* The heap.                                                               *)
(***************************************************************************)
EmptyHeap == [attn |-> <<>>, ff |-> <<>>, norm |-> <<>>, block |-> <<>>, config |-> <<>>]

\* ModelConfig.block_config(idx): a config built with a single
\* TransformerBlockConfig returns that one for every idx; one built with a
\* list returns the idx-th
block_config(h, config, idx) ==
  LET bcs == h.config[config].block_configs
  IN IF bcs.single THEN bcs.ids[1] ELSE bcs.ids[idx + 1]

\* binding of the parameter kv_cache_max_len: int = 1024
kv_cache_max_len_arg(kwargs) ==
  IF kwargs = {} THEN 1024 ELSE (CHOOSE p \in kwargs : p[1] = "kv_cache_max_len")[2]

\* get_3b_model_config with kv_cache_max_len hard-wired to its default
get_3b_model_config_fixed_kv(h, kwargs) ==
  LET attn_config == Len(h.attn) + 1
      ff_config == Len(h.ff) + 1
      norm_config == Len(h.norm) + 1
      block_config_ == Len(h.block) + 1
      config == Len(h.config) + 1
  IN [heap |->
        [attn |-> Append(h.attn,
                    [num_heads |-> 16, head_dim |-> 128, num_query_groups |-> 2,
                     rotary_base |-> 1000000, rotary_percentage |-> Float_1_0,
                     qkv_use_bias |-> TRUE]),
         ff |-> Append(h.ff,
                    [type |-> "GATED", activation |-> "SILU",
                     intermediate_size |-> 11008]),
         norm |-> Append(h.norm, [type |-> "RMS_NORM", epsilon |-> Float_1e_06]),
         block |-> Append(h.block,
                    [attn_config |-> attn_config, ff_config |-> ff_config,
                     pre_attention_norm_config |-> norm_config,
                     post_attention_norm_config |-> norm_config]),
         config |-> Append(h.config,
                    [vocab_size |-> 151936, num_layers |-> 36, max_seq_len |-> 32768,
                     embedding_dim |-> 2048,
                     kv_cache_max_len |-> 1024,
                     block_configs |-> [single |-> TRUE, ids |-> <<block_config_>>],
                     final_norm_config |-> norm_config,
                     enable_hlfb |-> TRUE])],
      ret |-> config]

\* get_3b_model_config(kv_cache_max_len=1024): allocates one attention, one
\* feed-forward, one normalization (shared by the three norms), one block and
\* one model config, and returns the model config
get_3b_model_config(h, kwargs) ==
  LET attn_config == Len(h.attn) + 1
      ff_config == Len(h.ff) + 1
      norm_config == Len(h.norm) + 1
      block_config_ == Len(h.block) + 1
      config == Len(h.config) + 1
  IN [heap |->
        [attn |-> Append(h.attn,
                    [num_heads |-> 16, head_dim |-> 128, num_query_groups |-> 2,
                     rotary_base |-> 1000000, rotary_percentage |-> Float_1_0,
                     qkv_use_bias |-> TRUE]),
         ff |-> Append(h.ff,
                    [type |-> "GATED", activation |-> "SILU",
                     intermediate_size |-> 11008]),
         norm |-> Append(h.norm, [type |-> "RMS_NORM", epsilon |-> Float_1e_06]),
         block |-> Append(h.block,
                    [attn_config |-> attn_config, ff_config |-> ff_config,
                     pre_attention_norm_config |-> norm_config,
                     post_attention_norm_config |-> norm_config]),
         config |-> Append(h.config,
                    [vocab_size |-> 151936, num_layers |-> 36, max_seq_len |-> 32768,
                     embedding_dim |-> 2048,
                     kv_cache_max_len |-> kv_cache_max_len_arg(kwargs),
                     block_configs |-> [single |-> TRUE, ids |-> <<block_config_>>],
                     final_norm_config |-> norm_config,
                     enable_hlfb |-> TRUE])],
      ret |-> config]

\* assignments to fields of heap objects
SetAttn(h, bc, field, v) == [h EXCEPT !.attn[h.block[bc].attn_config][field] = v]
SetFf(h, bc, field, v) == [h EXCEPT !.ff[h.block[bc].ff_config][field] = v]
SetConfig(h, config, field, v) == [h EXCEPT !.config[config][field] = v]

\* get_1_5b_model_config that forgets config.embedding_dim = 1536
get_1_5b_model_config_no_embedding_dim(h, kwargs) ==
  LET r == get_3b_model_config(h, kwargs)
      bc == block_config(r.heap, r.ret, 0)
      h1 == SetAttn(r.heap, bc, "num_heads", 12)
      h2 == SetFf(h1, bc, "intermediate_size", 8960)
      h3 == SetConfig(h2, r.ret, "num_layers", 28)
  IN [heap |-> h3, ret |-> r.ret]

\* get_1_5b_model_config(kv_cache_max_len=1024)
get_1_5b_model_config(h, kwargs) ==
  LET r == get_3b_model_config(h, kwargs)
      bc == block_config(r.heap, r.ret, 0)
      h1 == SetAttn(r.heap, bc, "num_heads", 12)
      h2 == SetFf(h1, bc, "intermediate_size", 8960)
      h3 == SetConfig(h2, r.ret, "num_layers", 28)
      h4 == SetConfig(h3, r.ret, "embedding_dim", 1536)
  IN [heap |-> h4, ret |-> r.ret]

\* get_0_5b_model_config with num_layers left at the 1.5B value
get_0_5b_model_config_1_5b_layers(h, kwargs) ==
  LET r == get_3b_model_config(h, kwargs)
      bc == block_config(r.heap, r.ret, 0)
      h1 == SetAttn(r.heap, bc, "num_heads", 14)
      h2 == SetAttn(h1, bc, "head_dim", 64)
      h3 == SetFf(h2, bc, "intermediate_size", 4864)
      h4 == SetConfig(h3, r.ret, "num_layers", 28)
      h5 == SetConfig(h4, r.ret, "embedding_dim", 896)
  IN [heap |-> h5, ret |-> r.ret]

\* get_0_5b_model_config that forgets block_config.attn_config.head_dim = 64
get_0_5b_model_config_no_head_dim(h, kwargs) ==
  LET r == get_3b_model_config(h, kwargs)
      bc == block_config(r.heap, r.ret, 0)
      h1 == SetAttn(r.heap, bc, "num_heads", 14)
      h3 == SetFf(h1, bc, "intermediate_size", 4864)
      h4 == SetConfig(h3, r.ret, "num_layers", 24)
      h5 == SetConfig(h4, r.ret, "embedding_dim", 896)
  IN [heap |-> h5, ret |-> r.ret]

\* get_0_5b_model_config(kv_cache_max_len=1024)
get_0_5b_model_config(h, kwargs) ==
  LET r == get_3b_model_config(h, kwargs)
      bc == block_config(r.heap, r.ret, 0)
      h1 == SetAttn(r.heap, bc, "num_heads", 14)
      h2 == SetAttn(h1, bc, "head_dim", 64)
      h3 == SetFf(h2, bc, "intermediate_size", 4864)
      h4 == SetConfig(h3, r.ret, "num_layers", 24)
      h5 == SetConfig(h4, r.ret, "embedding_dim", 896)
  IN [heap |-> h5, ret |-> r.ret]

\* get_fake_model_config that also shrinks embedding_dim
get_fake_model_config_small_embedding(h, kwargs) ==
  LET r == get_3b_model_config(h, kwargs)
      h1 == SetConfig(r.heap, r.ret, "vocab_size", 128)
      h2 == SetConfig(h1, r.ret, "num_layers", 2)
      h3 == SetConfig(h2, r.ret, "embedding_dim", 128)
      h4 == SetFf(h3, block_config(h3, r.ret, 0), "intermediate_size", 64)
  IN [heap |-> h4, ret |-> r.ret]

\* get_fake_model_config(**kwargs)
get_fake_model_config(h, kwargs) ==
  LET r == get_3b_model_config(h, kwargs)
      h1 == SetConfig(r.heap, r.ret, "vocab_size", 128)
      h2 == SetConfig(h1, r.ret, "num_layers", 2)
      h3 == SetFf(h2, block_config(h2, r.ret, 0), "intermediate_size", 64)
  IN [heap |-> h3, ret |-> r.ret]

(***************************************************************************)
(* The module: TinyLlama, Qwen and the checkpoint loader.                  *)
(***************************************************************************)
\* tiny_llama.TENSOR_NAMES: the checkpoint names of the tensors the loader maps
tiny_llama_TENSOR_NAMES == [embedding |-> "model.embed_tokens", lm_head |-> "lm_head"]

\* TENSOR_NAMES = copy.copy(tiny_llama.TENSOR_NAMES); TENSOR_NAMES.lm_head = None
TENSOR_NAMES == [tiny_llama_TENSOR_NAMES EXCEPT !.lm_head = "None"]

\* TinyLlama.__init__(config): a module in training mode whose embedding and
\* head projection each own a freshly initialised weight tensor
TinyLlama_init(ms, st, config) ==
  [models |-> Append(ms, [config |-> config,
                          tok_embedding |-> Len(st) + 1,
                          lm_head |-> Len(st) + 2,
                          training |-> TRUE]),
   storage |-> st \o <<InitEmbedding, InitHead>>,
   ret |-> Len(ms) + 1]

\* Qwen.__init__ that copies the embedding's values into the head's own tensor
Qwen_init_copy(ms, st, config) ==
  LET r == TinyLlama_init(ms, st, config)
      self == r.models[r.ret]
  IN [r EXCEPT !.storage[self.lm_head] = r.storage[self.tok_embedding]]

\* Qwen.__init__(config): super().__init__(config), then
\* self.lm_head.weight.data = self.tok_embedding.weight.data
Qwen_init(ms, st, config) ==
  LET r == TinyLlama_init(ms, st, config)
      self == r.models[r.ret]
  IN [r EXCEPT !.models[r.ret].lm_head = self.tok_embedding]

\* ModelLoader(checkpoint, names).load(model, strict): maps the checkpoint's
\* tensors to the module's through names and copies them into the module's
\* weights in place.  A name that is None is not mapped.  With strict, a
\* checkpoint tensor left unmapped or a module weight left without a tensor
\* is an error.
ModelLoader_load(ms, st, model, checkpoint, names, strict) ==
  LET self == ms[model]
      maps_head == names.lm_head # "None"
      unmapped == IF ~maps_head /\ checkpoint.lm_head # NoTensor THEN {"lm_head.weight"} ELSE {}
      missing == IF ~maps_head THEN {"lm_head.weight"} ELSE {}
      absent == maps_head /\ checkpoint.lm_head = NoTensor
      st1 == [st EXCEPT ![self.tok_embedding] = checkpoint.embedding]
      st2 == IF maps_head
               THEN [st1 EXCEPT ![self.lm_head] = CHOOSE v \in checkpoint.lm_head : TRUE]
               ELSE st1
  IN IF absent \/ (strict /\ (unmapped \cup missing) # {})
       THEN [ok |-> FALSE, storage |-> st]
       ELSE [ok |-> TRUE, storage |-> st2]

(***************************************************************************)
(* The state machine: one interpreter calling the module's functions.      *)
(***************************************************************************)
NoFrame == [fn |-> "none", kwargs |-> {}, checkpoint |-> [embedding |-> "w1", lm_head |-> NoTensor],
            config |-> 0, model |-> 0]

Init ==
  /\ heap = EmptyHeap
  /\ models = <<>>
  /\ storage = <<>>
  /\ pc = "idle"
  /\ frame = NoFrame
  /\ calls = <<>>

Idle == pc = "idle"
RoomForConfig == Len(heap.config) < MaxConfigs
RoomForModel == Len(models) < MaxModels

\* a call of one of the config functions returns
Returned(fn, kwargs, r) ==
  /\ heap' = r.heap
  /\ calls' = Append(calls, [fn |-> fn, kwargs |-> kwargs, ret |-> r.ret])
  /\ UNCHANGED <<models, storage, pc, frame>>

Call_get_3b_model_config ==
  /\ Idle /\ RoomForConfig
  /\ \E kwargs \in Kwargs :
       Returned("get_3b_model_config", kwargs, get_3b_model_config(heap, kwargs))

Call_get_1_5b_model_config ==
  /\ Idle /\ RoomForConfig
  /\ \E kwargs \in Kwargs :
       Returned("get_1_5b_model_config", kwargs, get_1_5b_model_config(heap, kwargs))

Call_get_0_5b_model_config ==
  /\ Idle /\ RoomForConfig
  /\ \E kwargs \in Kwargs :
       Returned("get_0_5b_model_config", kwargs, get_0_5b_model_config(heap, kwargs))

Call_get_fake_model_config ==
  /\ Idle /\ RoomForConfig
  /\ \E kwargs \in Kwargs :
       Returned("get_fake_model_config", kwargs, get_fake_model_config(heap, kwargs))

\* Qwen(config) called directly on a config made earlier
Call_Qwen ==
  /\ Idle /\ RoomForModel
  /\ \E config \in 1..Len(heap.config) :
       LET r == Qwen_init(models, storage, config)
       IN /\ models' = r.models
          /\ storage' = r.storage
          /\ calls' = Append(calls, [fn |-> "Qwen", kwargs |-> {}, ret |-> r.ret])
  /\ UNCHANGED <<heap, pc, frame>>

\* build_*_model evaluates its config argument and enters _build_model
Enter_build_model(fn, kwargs, checkpoint, r) ==
  /\ heap' = r.heap
  /\ frame' = [fn |-> fn, kwargs |-> kwargs, checkpoint |-> checkpoint,
               config |-> r.ret, model |-> 0]
  /\ pc' = "L123"
  /\ UNCHANGED <<models, storage, calls>>

Call_build_3b_model ==
  /\ Idle /\ RoomForConfig /\ RoomForModel
  /\ \E kwargs \in Kwargs, checkpoint \in Checkpoints :
       Enter_build_model("build_3b_model", kwargs, checkpoint,
                         get_3b_model_config(heap, kwargs))

Call_build_1_5b_model ==
  /\ Idle /\ RoomForConfig /\ RoomForModel
  /\ \E kwargs \in Kwargs, checkpoint \in Checkpoints :
       Enter_build_model("build_1_5b_model", kwargs, checkpoint,
                         get_1_5b_model_config(heap, kwargs))

Call_build_0_5b_model ==
  /\ Idle /\ RoomForConfig /\ RoomForModel
  /\ \E kwargs \in Kwargs, checkpoint \in Checkpoints :
       Enter_build_model("build_0_5b_model", kwargs, checkpoint,
                         get_0_5b_model_config(heap, kwargs))

\* _build_model: model = Qwen(config)
build_model_L123 ==
  /\ pc = "L123"
  /\ LET r == Qwen_init(models, storage, frame.config)
     IN /\ models' = r.models
        /\ storage' = r.storage
        /\ frame' = [frame EXCEPT !.model = r.ret]
  /\ pc' = "L127"
  /\ UNCHANGED <<heap, calls>>

\* _build_model: loader = ModelLoader(checkpoint_path, TENSOR_NAMES);
\* loader.load(model, strict=False)
build_model_L127 ==
  /\ pc = "L127"
  /\ LET r == ModelLoader_load(models, storage, frame.model, frame.checkpoint,
                               TENSOR_NAMES, FALSE)
     IN /\ storage' = r.storage
        /\ pc' = IF r.ok THEN "L128" ELSE "raised"
  /\ UNCHANGED <<heap, models, frame, calls>>

\* _build_model without model.eval()
build_model_L128_no_eval ==
  /\ pc = "L128"
  /\ pc' = "L129"
  /\ UNCHANGED <<heap, models, storage, frame, calls>>

\* _build_model: model.eval()
build_model_L128 ==
  /\ pc = "L128"
  /\ models' = [models EXCEPT ![frame.model].training = FALSE]
  /\ pc' = "L129"
  /\ UNCHANGED <<heap, storage, frame, calls>>

\* _build_model: return model, to the caller of build_*_model
build_model_L129 ==
  /\ pc = "L129"
  /\ calls' = Append(calls, [fn |-> frame.fn, kwargs |-> frame.kwargs, ret |-> frame.model])
  /\ pc' = "idle"
  /\ UNCHANGED <<heap, models, storage, frame>>

Next ==
  \/ Call_get_3b_model_config
  \/ Call_get_1_5b_model_config
  \/ Call_get_0_5b_model_config
  \/ Call_get_fake_model_config
  \/ Call_Qwen
  \/ Call_build_3b_model
  \/ Call_build_1_5b_model
  \/ Call_build_0_5b_model
  \/ build_model_L123
  \/ build_model_L127
  \/ build_model_L128
  \/ build_model_L129

Spec == Init /\ [][Next]_vars

(***************************************************************************)
(* What a caller reads from a config: every field, through the references. *)
(***************************************************************************)
\* the block config of layer idx, read through its references
BlockView(h, config, idx) ==
  LET b == h.block[block_config(h, config, idx)]
      a == h.attn[b.attn_config]
      f == h.ff[b.ff_config]
  IN [num_heads |-> a.num_heads, head_dim |-> a.head_dim,
      num_query_groups |-> a.num_query_groups, rotary_base |-> a.rotary_base,
      rotary_percentage |-> a.rotary_percentage, qkv_use_bias |-> a.qkv_use_bias,
      ff_type |-> f.type, ff_activation |-> f.activation,
      intermediate_size |-> f.intermediate_size,
      pre_attention_norm |-> h.norm[b.pre_attention_norm_config],
      post_attention_norm |-> h.norm[b.post_attention_norm_config]]

\* the model config, read through its references; the block fields are those
\* of layer 0
ConfigView(h, config) ==
  LET c == h.config[config]
      b == BlockView(h, config, 0)
  IN [vocab_size |-> c.vocab_size, num_layers |-> c.num_layers,
      max_seq_len |-> c.max_seq_len, embedding_dim |-> c.embedding_dim,
      kv_cache_max_len |-> c.kv_cache_max_len, enable_hlfb |-> c.enable_hlfb,
      final_norm |-> h.norm[c.final_norm_config],
      num_heads |-> b.num_heads, head_dim |-> b.head_dim,
      num_query_groups |-> b.num_query_groups, rotary_base |-> b.rotary_base,
      rotary_percentage |-> b.rotary_percentage, qkv_use_bias |-> b.qkv_use_bias,
      ff_type |-> b.ff_type, ff_activation |-> b.ff_activation,
      intermediate_size |-> b.intermediate_size,
      pre_attention_norm |-> b.pre_attention_norm,
      post_attention_norm |-> b.post_attention_norm]

\* the fields in which two views differ
DiffFields(v, w) == {f \in DOMAIN v : v[f] # w[f]}

\* every layer of the config reads the same block values as layer 0 (it does
\* when it reads the same object)
SameBlockEveryLayer(h, config) ==
  LET b0 == BlockView(h, config, 0)
  IN \A i \in 0..(h.config[config].num_layers - 1) :
       \/ block_config(h, config, i) = block_config(h, config, 0)
       \/ BlockView(h, config, i) = b0

\* what get_3b_model_config returns when called now with these arguments
Fresh3b(kwargs) ==
  LET r == get_3b_model_config(heap, kwargs) IN ConfigView(r.heap, r.ret)

\* the calls of fn that have returned
CallsOf(fn) == {i \in 1..Len(calls) : calls[i].fn = fn}

ConfigFns ==
  {"get_3b_model_config", "get_1_5b_model_config", "get_0_5b_model_config",
   "get_fake_model_config"}

(***************************************************************************)
(* C1                                                                      *)
(***************************************************************************)
\* C1: in every state, every constructed Qwen module's lm_head weight is the
\* same tensor as its tok_embedding weight, so after the loader (or anything
\* else) has written the embedding weight in place the two read the same values.
C1_HeadReusesEmbedding ==
  \A m \in 1..Len(models) :
    /\ models[m].lm_head = models[m].tok_embedding
    /\ storage[models[m].lm_head] = storage[models[m].tok_embedding]

\* a checkpoint whose lm_head tensor differs from its embedding has just been
\* loaded into a module
C1_Witness ==
  /\ pc = "L128"
  /\ frame.checkpoint.lm_head # NoTensor
  /\ frame.checkpoint.lm_head # {frame.checkpoint.embedding}
  /\ storage[models[frame.model].tok_embedding] = frame.checkpoint.embedding

(***************************************************************************)
(* C3                                                                      *)
(***************************************************************************)
\* the Qwen 2.5 3B hyperparameters
Claimed3b(kv) ==
  [vocab_size |-> 151936, num_layers |-> 36, max_seq_len |-> 32768,
   embedding_dim |-> 2048, kv_cache_max_len |-> kv, enable_hlfb |-> TRUE,
   final_norm |-> [type |-> "RMS_NORM", epsilon |-> [num |-> 1, den |-> 1000000]],
   num_heads |-> 16, head_dim |-> 128, num_query_groups |-> 2,
   rotary_base |-> 1000000, rotary_percentage |-> [num |-> 1, den |-> 1],
   qkv_use_bias |-> TRUE, ff_type |-> "GATED", ff_activation |-> "SILU",
   intermediate_size |-> 11008,
   pre_attention_norm |-> [type |-> "RMS_NORM", epsilon |-> [num |-> 1, den |-> 1000000]],
   post_attention_norm |-> [type |-> "RMS_NORM", epsilon |-> [num |-> 1, den |-> 1000000]]]

\* C3: every config returned by get_3b_model_config holds the Qwen 2.5 3B
\* hyperparameters, with kv_cache_max_len equal to the argument, and 1024 when
\* the argument is omitted.
C3_3bConfig ==
  \A i \in CallsOf("get_3b_model_config") :
    /\ calls[i].kwargs = {} =>
         ConfigView(heap, calls[i].ret) = Claimed3b(1024)
    /\ \A k \in KvLens :
         calls[i].kwargs = {<<"kv_cache_max_len", k>>} =>
           ConfigView(heap, calls[i].ret) = Claimed3b(k)

\* get_3b_model_config has returned once without and once with the argument
C3_Witness ==
  /\ \E i \in CallsOf("get_3b_model_config") : calls[i].kwargs = {}
  /\ \E i \in CallsOf("get_3b_model_config") :
       calls[i].kwargs = {<<"kv_cache_max_len", 2048>>}

(***************************************************************************)
(* C4                                                                      *)
(***************************************************************************)
\* C4: every config returned by get_1_5b_model_config differs from what
\* get_3b_model_config returns for the same argument in exactly num_heads (12),
\* intermediate_size (8960), num_layers (28) and embedding_dim (1536), and
\* every layer 0..num_layers-1 reads the overridden block values.
C4_1_5bConfig ==
  \A i \in CallsOf("get_1_5b_model_config") :
    LET v == ConfigView(heap, calls[i].ret)
    IN /\ DiffFields(v, Fresh3b(calls[i].kwargs)) =
            {"num_heads", "intermediate_size", "num_layers", "embedding_dim"}
       /\ v.num_heads = 12
       /\ v.intermediate_size = 8960
       /\ v.num_layers = 28
       /\ v.embedding_dim = 1536
       /\ SameBlockEveryLayer(heap, calls[i].ret)

\* get_1_5b_model_config has returned for a passed argument, and another
\* config has been made after it
C4_Witness ==
  \E i \in CallsOf("get_1_5b_model_config") :
    /\ calls[i].kwargs = {<<"kv_cache_max_len", 512>>}
    /\ i < Len(calls)

(***************************************************************************)
(* C5                                                                      *)
(***************************************************************************)
\* C5: every config returned by get_0_5b_model_config differs from what
\* get_3b_model_config returns for the same argument in exactly num_heads (14),
\* head_dim (64), intermediate_size (4864), num_layers (24) and embedding_dim
\* (896), and every layer 0..num_layers-1 reads the overridden block values.
C5_0_5bConfig ==
  \A i \in CallsOf("get_0_5b_model_config") :
    LET v == ConfigView(heap, calls[i].ret)
    IN /\ DiffFields(v, Fresh3b(calls[i].kwargs)) =
            {"num_heads", "head_dim", "intermediate_size", "num_layers",
             "embedding_dim"}
       /\ v.num_heads = 14
       /\ v.head_dim = 64
       /\ v.intermediate_size = 4864
       /\ v.num_layers = 24
       /\ v.embedding_dim = 896
       /\ SameBlockEveryLayer(heap, calls[i].ret)

\* get_0_5b_model_config has returned for a passed argument, and another
\* config has been made after it
C5_Witness ==
  \E i \in CallsOf("get_0_5b_model_config") :
    /\ calls[i].kwargs = {<<"kv_cache_max_len", 2048>>}
    /\ i < Len(calls)

(***************************************************************************)
(* C6                                                                      *)
(***************************************************************************)
BuildFns == {"build_3b_model", "build_1_5b_model", "build_0_5b_model"}

\* what the config function of the matching size returns when called now
FreshMatching(fn, kwargs) ==
  LET r == CASE fn = "build_3b_model" -> get_3b_model_config(heap, kwargs)
             [] fn = "build_1_5b_model" -> get_1_5b_model_config(heap, kwargs)
             [] fn = "build_0_5b_model" -> get_0_5b_model_config(heap, kwargs)
  IN ConfigView(r.heap, r.ret)

\* the module's embedding weight holds the checkpoint's embedding tensor
HoldsCheckpoint(m, checkpoint) ==
  storage[models[m].tok_embedding] = checkpoint.embedding

\* C6: _build_model constructs the tied Qwen module, then loads the checkpoint
\* (never failing on the unmapped lm_head), then switches to eval mode: before
\* the load the module is tied and in training mode, before eval() it is
\* loaded and still in training mode, afterwards it is in eval mode; every
\* module returned by build_3b_model, build_1_5b_model and build_0_5b_model is
\* in eval mode and its config is the matching size's for the caller's kwargs.
C6_BuildOrder ==
  /\ pc # "raised"
  /\ pc \in {"L123", "L127", "L128", "L129"} =>
       ConfigView(heap, frame.config) = FreshMatching(frame.fn, frame.kwargs)
  /\ pc \in {"L127", "L128", "L129"} =>
       /\ models[frame.model].config = frame.config
       /\ models[frame.model].lm_head = models[frame.model].tok_embedding
  /\ pc = "L127" => models[frame.model].training
  /\ pc = "L128" =>
       /\ models[frame.model].training
       /\ HoldsCheckpoint(frame.model, frame.checkpoint)
  /\ pc = "L129" =>
       /\ ~models[frame.model].training
       /\ HoldsCheckpoint(frame.model, frame.checkpoint)
  /\ \A i \in 1..Len(calls) :
       calls[i].fn \in BuildFns =>
         /\ ~models[calls[i].ret].training
         /\ ConfigView(heap, models[calls[i].ret].config) =
              FreshMatching(calls[i].fn, calls[i].kwargs)

\* build_1_5b_model has returned a module built with a passed kv_cache_max_len
C6_Witness ==
  \E i \in CallsOf("build_1_5b_model") :
    /\ calls[i].kwargs = {<<"kv_cache_max_len", 512>>}
    /\ pc = "idle"

(***************************************************************************)
(* C7                                                                      *)
(***************************************************************************)
\* C7: every config returned by get_fake_model_config differs from what
\* get_3b_model_config returns for the same keyword arguments in exactly
\* vocab_size (128), num_layers (2) and intermediate_size (64); embedding_dim
\* stays 2048, num_heads 16 and head_dim 128.
C7_FakeConfig ==
  \A i \in CallsOf("get_fake_model_config") :
    LET v == ConfigView(heap, calls[i].ret)
    IN /\ DiffFields(v, Fresh3b(calls[i].kwargs)) =
            {"vocab_size", "num_layers", "intermediate_size"}
       /\ v.vocab_size = 128
       /\ v.num_layers = 2
       /\ v.intermediate_size = 64
       /\ v.embedding_dim = 2048
       /\ v.num_heads = 16
       /\ v.head_dim = 128

\* get_fake_model_config has returned once without and once with a keyword
\* argument
C7_Witness ==
  /\ \E i \in CallsOf("get_fake_model_config") : calls[i].kwargs = {}
  /\ \E i \in CallsOf("get_fake_model_config") :
       calls[i].kwargs = {<<"kv_cache_max_len", 512>>}

(***************************************************************************)
(* C8                                                                      *)
(***************************************************************************)
\* C8: in every config returned by the four config functions,
\* num_heads * head_dim = embedding_dim and num_heads is a positive multiple
\* of num_query_groups.
C8_DimensionallyConsistent ==
  \A i \in 1..Len(calls) :
    calls[i].fn \in ConfigFns =>
      LET v == ConfigView(heap, calls[i].ret)
      IN /\ v.num_heads * v.head_dim = v.embedding_dim
         /\ v.num_heads > 0
         /\ v.num_query_groups > 0
         /\ v.num_heads % v.num_query_groups = 0

\* a 0.5B config, whose head_dim is overridden, and a 1.5B config have been
\* returned
C8_Witness ==
  /\ CallsOf("get_0_5b_model_config") # {}
  /\ CallsOf("get_1_5b_model_config") # {}

====
